---------------------------- MODULE Spec2Model ----------------------------
(***************************************************************************)
(* Model of two assets of the installer:                                   *)
(*   pkg/asset/cluster/cluster.go      Cluster  (Generate, Files, Load)    *)
(*   pkg/asset/manifests/tectonic.go   Tectonic (Generate, Files, Load)    *)
(*                                                                         *)
(* Cluster.Generate is modelled statement by statement (one action per     *)
(* call into the operating system or the provisioning tool), with Go's     *)
(* deferred calls kept on a stack that is unwound, last registered first,  *)
(* at every return.  Environment outcomes (does TempDir succeed, does      *)
(* terraform.Apply succeed, ...) are nondeterministic inputs.              *)
(* Byte contents are modelled as sequences of strings, pointers as         *)
(* sequences of length 0 (nil) or 1.                                       *)
(***************************************************************************)
EXTENDS Naturals, Sequences, FiniteSets, TLC

\* ------------------------------------------------------------------ bounds
\* Number of Generate calls made on one Cluster asset.
MaxCalls == 2
\* Longest file list a fetcher hands to Tectonic.Load.
MaxFetched == 2

\* --------------------------------------------------------------- constants
metadataFileName == "metadata.json"
StateFileName == "terraform.tfstate"
tfvarsFileName == "terraform.tfvars"
tectonicManifestDir == "tectonic"

Join(dir, name) == dir \o "/" \o name

tectonicConfigPath == Join(tectonicManifestDir, "00_cluster-config.yaml")

NoErr == "nil"
ErrTempDir == "failed to create temp dir for terraform execution"
ErrWriteVars == "failed to write terraform.tfvars file"
ErrNoPlatform == "no known platform"
ErrApply == "failed to run terraform"
ErrReadState == "read tfstate: i/o error"
ErrMarshal == "failed to Marshal ClusterMetadata"
ErrAlreadyExists == "terraform.tfstate already exisits.  There may already be a running cluster"
ErrFetch == "fetch: i/o error"
ErrYamlMarshal == "failed to create tectonic-system/cluster-config-v1 configmap"
ErrYamlUnmarshal == "failed to unmarshal 00_cluster-config.yaml"

\* ------------------------------------------------------------------ inputs
ClusterNames == {"mycluster"}
ClusterIDs == {"abc123"}
Regions == {"us-east-1"}
URIs == {"qemu:///system"}

Nil == <<>>

\* installConfig.Config.Platform: one pointer per platform kind, at most one
\* of them non-nil.
Platforms ==
    {[AWS |-> Nil, OpenStack |-> Nil, Libvirt |-> Nil]}
    \cup {[AWS |-> <<[Region |-> r]>>, OpenStack |-> Nil, Libvirt |-> Nil] : r \in Regions}
    \cup {[AWS |-> Nil, OpenStack |-> <<[Region |-> r]>>, Libvirt |-> Nil] : r \in Regions}
    \cup {[AWS |-> Nil, OpenStack |-> Nil, Libvirt |-> <<[URI |-> u]>>] : u \in URIs}

InstallConfigs ==
    [Name : ClusterNames, ClusterID : ClusterIDs, Platform : Platforms]

\* installConfig.Config.Platform.Name()
PlatformName(p) ==
    IF p.AWS # Nil THEN "aws"
    ELSE IF p.Libvirt # Nil THEN "libvirt"
    ELSE IF p.OpenStack # Nil THEN "openstack"
    ELSE ""

VARIABLES
    pc,            \* position of the Cluster.Generate call
    calls,         \* Generate calls completed on this asset
    installConfig, \* the install configuration of the running call
    FileList,      \* Cluster.FileList
    entryFileList, \* Cluster.FileList as it was when the running call began
    err,           \* Generate's named result err
    metadata,      \* the *types.ClusterMetadata under construction (Nil before)
    defers,        \* deferred calls registered so far, in registration order
    tmpDirExists,  \* whether the temporary directory exists
    tmpDirFiles,   \* names of the files in the temporary directory
    stateFile,     \* path returned by terraform.Apply ("" for none)
    writes,        \* files written by the running call (ioutil.WriteFile)
    applied,       \* platform names terraform.Apply was invoked with, this call
    outcome,       \* what each step of the running call met
    logged,        \* errors the running call logged instead of returning
    loadFetch,     \* what FetchByName answered to the last Cluster.Load
    loadRet,       \* the last Cluster.Load's result
    tFileList,     \* Tectonic.FileList
    TectonicConfig,\* Tectonic.TectonicConfig (Nil or <<object>>)
    tCall,         \* the last Tectonic operation, what the fetcher handed it
                   \* and the length of Tectonic.FileList before it
    tRet           \* the last Tectonic operation's result

cvars == <<pc, calls, installConfig, FileList, entryFileList, err, metadata,
           defers, tmpDirExists, tmpDirFiles, stateFile, writes, applied,
           outcome, logged, loadFetch, loadRet>>
tvars == <<tFileList, TectonicConfig, tCall, tRet>>
vars == <<cvars, tvars>>

NoOutcome == [tempDir |-> "-", write |-> "-", apply |-> "-", read |-> "-", marshal |-> "-"]

File(name, data) == [Filename |-> name, Data |-> data]

\* json.Marshal(metadata)
JsonMarshal(m) ==
    <<"json", "ClusterName", m.ClusterName>>
    \o (IF m.AWS # Nil
        THEN <<"AWS", "Region", m.AWS[1].Region>>
             \o m.AWS[1].Identifier[1] \o m.AWS[1].Identifier[2]
        ELSE <<>>)
    \o (IF m.OpenStack # Nil
        THEN <<"OpenStack", "Region", m.OpenStack[1].Region>> \o m.OpenStack[1].Identifier
        ELSE <<>>)
    \o (IF m.Libvirt # Nil
        THEN <<"Libvirt", "URI", m.Libvirt[1].URI>>
        ELSE <<>>)

\* the bytes terraform leaves in its state file
StateData(platform, applyOK) ==
    <<"tfstate", platform>> \o (IF applyOK THEN <<>> ELSE <<"partial">>)

InitCluster ==
    /\ pc = "idle"
    /\ calls = 0
    /\ installConfig = [Name |-> "", ClusterID |-> "",
                        Platform |-> [AWS |-> Nil, OpenStack |-> Nil, Libvirt |-> Nil]]
    /\ FileList = <<>>
    /\ entryFileList = <<>>
    /\ err = NoErr
    /\ metadata = Nil
    /\ defers = <<>>
    /\ tmpDirExists = FALSE
    /\ tmpDirFiles = {}
    /\ stateFile = ""
    /\ writes = <<>>
    /\ applied = <<>>
    /\ outcome = NoOutcome
    /\ logged = <<>>
    /\ loadFetch = "-"
    /\ loadRet = [found |-> FALSE, err |-> NoErr]

\* ------------------------------------------------------- Cluster.Generate

\* Entry: parents.Get(installConfig, terraformVariables, adminKubeconfig).
Generate(ic) ==
    /\ pc \in {"idle", "returned"}
    /\ calls < MaxCalls
    /\ pc' = "TempDir"
    /\ installConfig' = ic
    /\ entryFileList' = FileList
    /\ err' = NoErr
    /\ metadata' = Nil
    /\ defers' = <<>>
    /\ stateFile' = ""
    /\ writes' = <<>>
    /\ applied' = <<>>
    /\ outcome' = NoOutcome
    /\ logged' = <<>>
    /\ UNCHANGED <<calls, FileList, tmpDirExists, tmpDirFiles, loadFetch, loadRet>>

\* Faulty variant: the removal is not deferred.
TempDirNoDefer(ok) ==
    /\ pc = "TempDir"
    /\ outcome' = [outcome EXCEPT !.tempDir = IF ok THEN "ok" ELSE "fail"]
    /\ IF ok
       THEN /\ tmpDirExists' = TRUE
            /\ tmpDirFiles' = {}
            /\ pc' = "WriteFile"
            /\ UNCHANGED <<err, defers>>
       ELSE /\ err' = ErrTempDir
            /\ pc' = "return"
            /\ UNCHANGED <<tmpDirExists, tmpDirFiles, defers>>
    /\ UNCHANGED <<calls, installConfig, FileList, entryFileList, metadata,
                   stateFile, writes, applied, logged, loadFetch, loadRet>>

\* tmpDir, err := ioutil.TempDir(...); on failure return; defer os.RemoveAll(tmpDir)
TempDir(ok) ==
    /\ pc = "TempDir"
    /\ outcome' = [outcome EXCEPT !.tempDir = IF ok THEN "ok" ELSE "fail"]
    /\ IF ok
       THEN /\ tmpDirExists' = TRUE
            /\ tmpDirFiles' = {}
            /\ defers' = Append(defers, "RemoveAll")
            /\ pc' = "WriteFile"
            /\ UNCHANGED err
       ELSE /\ err' = ErrTempDir
            /\ pc' = "return"
            /\ UNCHANGED <<tmpDirExists, tmpDirFiles, defers>>
    /\ UNCHANGED <<calls, installConfig, FileList, entryFileList, metadata,
                   stateFile, writes, applied, logged, loadFetch, loadRet>>

\* ioutil.WriteFile(tmpDir/terraform.tfvars); on failure return.  On success
\* the metadata record is built and its serialization is deferred.
WriteFile(ok) ==
    /\ pc = "WriteFile"
    /\ outcome' = [outcome EXCEPT !.write = IF ok THEN "ok" ELSE "fail"]
    /\ writes' = Append(writes, tfvarsFileName)
    /\ IF ok
       THEN /\ tmpDirFiles' = tmpDirFiles \cup {tfvarsFileName}
            /\ metadata' = <<[ClusterName |-> installConfig.Name,
                              AWS |-> Nil, OpenStack |-> Nil, Libvirt |-> Nil]>>
            /\ defers' = Append(defers, "metadata")
            /\ pc' = "switch"
            /\ UNCHANGED err
       ELSE /\ err' = ErrWriteVars
            /\ pc' = "return"
            /\ UNCHANGED <<tmpDirFiles, metadata, defers>>
    /\ UNCHANGED <<calls, installConfig, FileList, entryFileList, tmpDirExists,
                   stateFile, applied, logged, loadFetch, loadRet>>

\* Faulty variant: the OpenStack and Libvirt cases fill each other's variant.
PlatformMetadataSwapped(m, ic) ==
    IF ic.Platform.AWS # Nil
    THEN [m EXCEPT !.AWS = <<[Region |-> ic.Platform.AWS[1].Region,
                              Identifier |-> << <<"tectonicClusterID", ic.ClusterID>>,
                                                <<"kubernetes.io/cluster/" \o ic.Name, "owned">> >>]>>]
    ELSE IF ic.Platform.OpenStack # Nil
    THEN [m EXCEPT !.Libvirt = <<[URI |-> ic.Platform.OpenStack[1].Region]>>]
    ELSE IF ic.Platform.Libvirt # Nil
    THEN [m EXCEPT !.OpenStack = <<[Region |-> ic.Platform.Libvirt[1].URI,
                                    Identifier |-> <<"tectonicClusterID", ic.ClusterID>>]>>]
    ELSE m

\* The cases of the platform switch: the metadata record with the variant of
\* the first non-nil platform filled in (unchanged in the default case).
PlatformMetadata(m, ic) ==
    IF ic.Platform.AWS # Nil
    THEN [m EXCEPT !.AWS = <<[Region |-> ic.Platform.AWS[1].Region,
                              Identifier |-> << <<"tectonicClusterID", ic.ClusterID>>,
                                                <<"kubernetes.io/cluster/" \o ic.Name, "owned">> >>]>>]
    ELSE IF ic.Platform.OpenStack # Nil
    THEN [m EXCEPT !.OpenStack = <<[Region |-> ic.Platform.OpenStack[1].Region,
                                    Identifier |-> <<"tectonicClusterID", ic.ClusterID>>]>>]
    ELSE IF ic.Platform.Libvirt # Nil
    THEN [m EXCEPT !.Libvirt = <<[URI |-> ic.Platform.Libvirt[1].URI]>>]
    ELSE m

KnownPlatform(ic) ==
    \/ ic.Platform.AWS # Nil
    \/ ic.Platform.OpenStack # Nil
    \/ ic.Platform.Libvirt # Nil

\* Faulty variant: the default case does not return.
SwitchPlatformFallThrough ==
    /\ pc = "switch"
    /\ metadata' = <<PlatformMetadata(metadata[1], installConfig)>>
    /\ pc' = "Apply"
    /\ UNCHANGED <<err, calls, installConfig, FileList, entryFileList, defers,
                   tmpDirExists, tmpDirFiles, stateFile, writes, applied,
                   outcome, logged, loadFetch, loadRet>>

\* Faulty variant: the metadata serialization is deferred after the switch, so the
\* default case returns without it.
SwitchPlatformDeferLate ==
    /\ pc = "switch"
    /\ metadata' = <<PlatformMetadata(metadata[1], installConfig)>>
    /\ IF KnownPlatform(installConfig)
       THEN pc' = "Apply" /\ UNCHANGED <<err, defers>>
       ELSE /\ err' = ErrNoPlatform
            /\ defers' = SelectSeq(defers, LAMBDA d : d # "metadata")
            /\ pc' = "return"
    /\ UNCHANGED <<calls, installConfig, FileList, entryFileList,
                   tmpDirExists, tmpDirFiles, stateFile, writes, applied,
                   outcome, logged, loadFetch, loadRet>>

\* switch { case ...AWS != nil: ... default: return fmt.Errorf("no known platform") }
SwitchPlatform ==
    /\ pc = "switch"
    /\ metadata' = <<PlatformMetadata(metadata[1], installConfig)>>
    /\ IF KnownPlatform(installConfig)
       THEN pc' = "Apply" /\ UNCHANGED err
       ELSE err' = ErrNoPlatform /\ pc' = "return"
    /\ UNCHANGED <<calls, installConfig, FileList, entryFileList, defers,
                   tmpDirExists, tmpDirFiles, stateFile, writes, applied,
                   outcome, logged, loadFetch, loadRet>>

\* stateFile, err := terraform.Apply(tmpDir, Platform.Name()); a failure is
\* wrapped and kept in err.  The tool may or may not have left a state file.
Apply(ok, wrote) ==
    /\ pc = "Apply"
    /\ ok => wrote
    /\ outcome' = [outcome EXCEPT !.apply = IF ok THEN "ok" ELSE "fail"]
    /\ applied' = Append(applied, PlatformName(installConfig.Platform))
    /\ err' = IF ok THEN NoErr ELSE ErrApply
    /\ stateFile' = IF wrote THEN StateFileName ELSE ""
    /\ tmpDirFiles' = IF wrote THEN tmpDirFiles \cup {StateFileName} ELSE tmpDirFiles
    /\ pc' = "ReadFile"
    /\ UNCHANGED <<calls, installConfig, FileList, entryFileList, metadata, defers,
                   tmpDirExists, writes, logged, loadFetch, loadRet>>

\* Faulty variant: the read's outcome replaces the error of the apply.
ReadFileOverwritesErr(ok) ==
    /\ pc = "ReadFile"
    /\ ok => stateFile \in tmpDirFiles
    /\ outcome' = [outcome EXCEPT !.read = IF ok THEN "ok" ELSE "fail"]
    /\ IF ok
       THEN /\ FileList' = Append(FileList,
                  File(StateFileName,
                       StateData(PlatformName(installConfig.Platform), outcome.apply = "ok")))
            /\ err' = NoErr
       ELSE /\ err' = ErrReadState
            /\ UNCHANGED FileList
    /\ pc' = "return"
    /\ UNCHANGED <<logged, calls, installConfig, entryFileList, metadata, defers, tmpDirExists,
                   tmpDirFiles, stateFile, writes, applied, loadFetch, loadRet>>

\* Faulty variant: the state file is read only after a successful apply.
ReadFileOnlyOnSuccess(ok) ==
    /\ pc = "ReadFile"
    /\ ok => stateFile \in tmpDirFiles
    /\ outcome' = [outcome EXCEPT !.read = IF ok THEN "ok" ELSE "fail"]
    /\ IF ok
       THEN /\ FileList' = IF err = NoErr
                           THEN Append(FileList,
                                  File(StateFileName,
                                       StateData(PlatformName(installConfig.Platform), TRUE)))
                           ELSE FileList
            /\ UNCHANGED <<err, logged>>
       ELSE /\ IF err = NoErr
               THEN err' = ErrReadState /\ UNCHANGED logged
               ELSE logged' = Append(logged, ErrReadState) /\ UNCHANGED err
            /\ UNCHANGED FileList
    /\ pc' = "return"
    /\ UNCHANGED <<calls, installConfig, entryFileList, metadata, defers, tmpDirExists,
                   tmpDirFiles, stateFile, writes, applied, loadFetch, loadRet>>

\* data, err2 := ioutil.ReadFile(stateFile); on success the state artifact is
\* appended, on failure err2 is returned if err is nil and logged otherwise.
\* return err.
ReadFile(ok) ==
    /\ pc = "ReadFile"
    /\ ok => stateFile \in tmpDirFiles
    /\ outcome' = [outcome EXCEPT !.read = IF ok THEN "ok" ELSE "fail"]
    /\ IF ok
       THEN /\ FileList' = Append(FileList,
                  File(StateFileName,
                       StateData(PlatformName(installConfig.Platform), outcome.apply = "ok")))
            /\ UNCHANGED <<err, logged>>
       ELSE /\ IF err = NoErr
               THEN err' = ErrReadState /\ UNCHANGED logged
               ELSE logged' = Append(logged, ErrReadState) /\ UNCHANGED err
            /\ UNCHANGED FileList
    /\ pc' = "return"
    /\ UNCHANGED <<calls, installConfig, entryFileList, metadata, defers, tmpDirExists,
                   tmpDirFiles, stateFile, writes, applied, loadFetch, loadRet>>

\* Faulty variant: the metadata artifact is appended only when Generate is failing.
DeferredMetadataOnlyOnError(ok) ==
    /\ pc = "return"
    /\ defers # <<>>
    /\ defers[Len(defers)] = "metadata"
    /\ defers' = SubSeq(defers, 1, Len(defers) - 1)
    /\ outcome' = [outcome EXCEPT !.marshal = IF ok THEN "ok" ELSE "fail"]
    /\ IF ok
       THEN /\ FileList' = IF err # NoErr
                           THEN Append(FileList, File(metadataFileName, JsonMarshal(metadata[1])))
                           ELSE FileList
            /\ UNCHANGED <<err, logged>>
       ELSE /\ IF err = NoErr
               THEN err' = ErrMarshal /\ UNCHANGED logged
               ELSE logged' = Append(logged, ErrMarshal) /\ UNCHANGED err
            /\ UNCHANGED FileList
    /\ UNCHANGED <<pc, calls, installConfig, entryFileList, metadata, tmpDirExists,
                   tmpDirFiles, stateFile, writes, applied, loadFetch, loadRet>>

\* The deferred closure: json.Marshal(metadata); on success the metadata
\* artifact is appended, on failure err2 becomes err if err is nil and is
\* logged otherwise.
DeferredMetadata(ok) ==
    /\ pc = "return"
    /\ defers # <<>>
    /\ defers[Len(defers)] = "metadata"
    /\ defers' = SubSeq(defers, 1, Len(defers) - 1)
    /\ outcome' = [outcome EXCEPT !.marshal = IF ok THEN "ok" ELSE "fail"]
    /\ IF ok
       THEN /\ FileList' = Append(FileList, File(metadataFileName, JsonMarshal(metadata[1])))
            /\ UNCHANGED <<err, logged>>
       ELSE /\ IF err = NoErr
               THEN err' = ErrMarshal /\ UNCHANGED logged
               ELSE logged' = Append(logged, ErrMarshal) /\ UNCHANGED err
            /\ UNCHANGED FileList
    /\ UNCHANGED <<pc, calls, installConfig, entryFileList, metadata, tmpDirExists,
                   tmpDirFiles, stateFile, writes, applied, loadFetch, loadRet>>

\* The deferred os.RemoveAll(tmpDir).
DeferredRemoveAll ==
    /\ pc = "return"
    /\ defers # <<>>
    /\ defers[Len(defers)] = "RemoveAll"
    /\ defers' = SubSeq(defers, 1, Len(defers) - 1)
    /\ tmpDirExists' = FALSE
    /\ tmpDirFiles' = {}
    /\ UNCHANGED <<pc, calls, installConfig, FileList, entryFileList, err, metadata,
                   stateFile, writes, applied, outcome, logged, loadFetch, loadRet>>

\* Generate hands err to its caller once every deferred call has run.
Return ==
    /\ pc = "return"
    /\ defers = <<>>
    /\ pc' = "returned"
    /\ calls' = calls + 1
    /\ UNCHANGED <<installConfig, FileList, entryFileList, err, metadata, defers,
                   tmpDirExists, tmpDirFiles, stateFile, writes, applied, outcome,
                   logged, loadFetch, loadRet>>

\* Cluster.Files()
Files == FileList

\* ----------------------------------------------------------- Cluster.Load
FetchOutcomes == {"found", "notexist", "ioerror"}

\* Faulty variant: an existing state file is a cache hit.
LoadResultCacheHit(fetch) ==
    IF fetch = "notexist" THEN [found |-> FALSE, err |-> NoErr]
    ELSE IF fetch = "ioerror" THEN [found |-> FALSE, err |-> ErrFetch]
    ELSE [found |-> TRUE, err |-> NoErr]

\* The result of Load for each answer of f.FetchByName(terraform.StateFileName).
LoadResult(fetch) ==
    IF fetch = "notexist" THEN [found |-> FALSE, err |-> NoErr]
    ELSE IF fetch = "ioerror" THEN [found |-> FALSE, err |-> ErrFetch]
    ELSE [found |-> TRUE, err |-> ErrAlreadyExists]

Load(fetch) ==
    /\ pc \in {"idle", "returned"}
    /\ loadFetch' = fetch
    /\ loadRet' = LoadResult(fetch)
    /\ UNCHANGED <<pc, calls, installConfig, FileList, entryFileList, err, metadata,
                   defers, tmpDirExists, tmpDirFiles, stateFile, writes, applied,
                   outcome, logged>>

\* ------------------------------------------------------ Tectonic.Generate
KubeAddonOperatorImage ==
    "quay.io/coreos/kube-addon-operator-dev:375423a332f2c12b79438fc6a6da6e448e28ec0f"

PullSecrets == {"a", "ab"}
AddonConfigs == {"addon-config-1", "addon-config-2"}

\* base64.StdEncoding.EncodeToString, on the pull secrets of the model
Base64Encode(s) ==
    CASE s = "" -> ""
      [] s = "a" -> "YQ=="
      [] s = "ab" -> "YWI="

\* applyTemplateData(template, templateData)
applyTemplateData(template, templateData) ==
    <<"rendered", template, templateData.KubeAddonOperatorImage, templateData.PullSecret>>

\* The filename table, in the order the source lists it.
assetNames ==
    << "99_binding-discovery.yaml",
       "99_kube-addon-00-appversion.yaml",
       "99_kube-addon-01-operator.yaml",
       "99_openshift-cluster-api_cluster.yaml",
       "99_openshift-cluster-api_master-machines.yaml",
       "99_openshift-cluster-api_master-user-data-secrets.yaml",
       "99_openshift-cluster-api_worker-machineset.yaml",
       "99_openshift-cluster-api_worker-user-data-secret.yaml",
       "99_role-admin.yaml",
       "99_role-user.yaml",
       "99_tectonic-system-00-binding-admin.yaml",
       "99_tectonic-system-02-pull.json" >>

\* assetData[name], for the pull secret of the install configuration
assetData(name, pullSecret) ==
    LET templateData == [KubeAddonOperatorImage |-> KubeAddonOperatorImage,
                         PullSecret |-> Base64Encode(pullSecret)]
    IN CASE name = "99_binding-discovery.yaml" -> <<"content", "BindingDiscovery">>
         [] name = "99_kube-addon-00-appversion.yaml" -> <<"content", "AppVersionKubeAddon">>
         [] name = "99_kube-addon-01-operator.yaml" ->
                applyTemplateData("KubeAddonOperator", templateData)
         [] name = "99_openshift-cluster-api_cluster.yaml" -> <<"clusterk8sio.Raw">>
         [] name = "99_openshift-cluster-api_master-machines.yaml" -> <<"master.MachinesRaw">>
         [] name = "99_openshift-cluster-api_master-user-data-secrets.yaml" ->
                <<"master.UserDataSecretsRaw">>
         [] name = "99_openshift-cluster-api_worker-machineset.yaml" -> <<"worker.MachineSetRaw">>
         [] name = "99_openshift-cluster-api_worker-user-data-secret.yaml" ->
                <<"worker.UserDataSecretRaw">>
         [] name = "99_role-admin.yaml" -> <<"content", "RoleAdmin">>
         [] name = "99_role-user.yaml" -> <<"content", "RoleUser">>
         [] name = "99_tectonic-system-00-binding-admin.yaml" -> <<"content", "BindingAdmin">>
         [] name = "99_tectonic-system-02-pull.json" ->
                applyTemplateData("PullTectonicSystem", templateData)

\* Go leaves the order of "for name, data := range assetData" unspecified.
\* The orders explored are the rotations of the table (the runtime starts the
\* walk at a random place of the map) and the table reversed.
Rotate(s, k) == [i \in 1..Len(s) |-> s[((i + k - 1) % Len(s)) + 1]]
Reverse(s) == [i \in 1..Len(s) |-> s[Len(s) + 1 - i]]
RangeOrders ==
    {Rotate(assetNames, k) : k \in 0..(Len(assetNames) - 1)} \cup {Reverse(assetNames)}

\* configMap(namespace, name, data): the configuration object
configMap(namespace, name, data) ==
    [Namespace |-> namespace, Name |-> name, Data |-> data]

\* the value of &configurationObject{}
ZeroConfigurationObject == [Namespace |-> "", Name |-> "", Data |-> <<>>]

\* yaml.Marshal of a configuration object
YamlMarshal(obj) ==
    <<"yaml", "namespace", obj.Namespace, "name", obj.Name>>
    \o (IF obj.Data = <<>> THEN <<>> ELSE <<"data">> \o obj.Data)

\* yaml.Unmarshal(data, obj): the object after the call and the error.  An
\* empty document leaves obj as it was; a document sets the fields it holds.
YamlUnmarshal(data, obj) ==
    IF data = <<>> THEN [obj |-> obj, err |-> NoErr]
    ELSE IF Len(data) >= 5 /\ data[1] = "yaml" /\ data[2] = "namespace" /\ data[4] = "name"
    THEN IF Len(data) = 5
         THEN [obj |-> [obj EXCEPT !.Namespace = data[3], !.Name = data[5]], err |-> NoErr]
         ELSE IF Len(data) = 8 /\ data[6] = "data"
         THEN [obj |-> [Namespace |-> data[3], Name |-> data[5],
                        Data |-> SubSeq(data, 7, 8)],
               err |-> NoErr]
         ELSE [obj |-> obj, err |-> ErrYamlUnmarshal]
    ELSE [obj |-> obj, err |-> ErrYamlUnmarshal]

RECURSIVE tableFiles(_, _)
\* the files the range loop appends, for one order of the table
tableFiles(order, pullSecret) ==
    IF order = <<>> THEN <<>>
    ELSE <<File(Join(tectonicManifestDir, Head(order)), assetData(Head(order), pullSecret))>>
         \o tableFiles(Tail(order), pullSecret)

\* Faulty variant: the files are appended to the list the asset already holds.
GenerateFileListAppending(old, tectonicConfigData, order, pullSecret) ==
    old \o <<File(tectonicConfigPath, tectonicConfigData)>> \o tableFiles(order, pullSecret)

\* t.FileList after a successful Generate
GenerateFileList(old, tectonicConfigData, order, pullSecret) ==
    <<File(tectonicConfigPath, tectonicConfigData)>> \o tableFiles(order, pullSecret)

TectonicGenerate(pullSecret, addonConfig, order, marshalOK) ==
    LET config == configMap("tectonic-system", "cluster-config-v1",
                            <<"addon-config", addonConfig>>)
    IN /\ tCall' = [op |-> "Generate", oldLen |-> Len(tFileList),
                    fetched |-> <<>>, fetchOK |-> TRUE]
       /\ TectonicConfig' = <<config>>
       /\ IF marshalOK
          THEN /\ tFileList' = GenerateFileList(tFileList, YamlMarshal(config), order, pullSecret)
               /\ tRet' = [found |-> FALSE, err |-> NoErr]
          ELSE /\ tRet' = [found |-> FALSE, err |-> ErrYamlMarshal]
               /\ UNCHANGED tFileList

\* Tectonic.Files()
TectonicFiles == tFileList

\* ---------------------------------------------------------- Tectonic.Load
FetchNames == {tectonicConfigPath,
               Join(tectonicManifestDir, "99_role-admin.yaml"),
               Join(tectonicManifestDir, "99_role-user.yaml")}

\* What a fetched file may hold: the configuration document is a serialized
\* object, empty, or not a document at all; the other files hold their content.
FetchData(name) ==
    IF name = tectonicConfigPath
    THEN {YamlMarshal(configMap("tectonic-system", "cluster-config-v1",
                                <<"addon-config", "addon-config-1">>)),
          <<>>,
          <<"\tnot a document">>}
    ELSE IF name = Join(tectonicManifestDir, "99_role-admin.yaml")
    THEN {<<"content", "RoleAdmin">>}
    ELSE {<<"content", "RoleUser">>}

FetchFiles == UNION {{File(n, d) : d \in FetchData(n)} : n \in FetchNames}

\* What f.FetchByPattern("tectonic/*") can hand back: files of one directory,
\* so no name twice.
FetchedLists ==
    {l \in UNION {[1..n -> FetchFiles] : n \in 0..MaxFetched} :
        \A i, j \in 1..Len(l) : l[i].Filename = l[j].Filename => i = j}

RECURSIVE LoadLoop(_, _)
\* "for _, file := range fileList": the state of the loop (tectonicConfig,
\* found, err) after the files in fileList, starting from st.
LoadLoop(fileList, st) ==
    IF fileList = <<>> \/ st.err # NoErr THEN st
    ELSE IF Head(fileList).Filename = tectonicConfigPath
    THEN LET u == YamlUnmarshal(Head(fileList).Data, st.tectonicConfig)
         IN IF u.err # NoErr
            THEN [st EXCEPT !.err = ErrYamlUnmarshal]
            ELSE LoadLoop(Tail(fileList),
                          [tectonicConfig |-> u.obj, found |-> TRUE, err |-> NoErr])
    ELSE LoadLoop(Tail(fileList), st)

\* Faulty variant: the asset is taken as found whenever files matched.
TectonicLoadResultNoFoundCheck(old, fetchOK, fileList) ==
    IF ~fetchOK THEN [old EXCEPT !.found = FALSE, !.err = ErrFetch]
    ELSE IF Len(fileList) = 0 THEN [old EXCEPT !.found = FALSE, !.err = NoErr]
    ELSE LET st == LoadLoop(fileList, [tectonicConfig |-> ZeroConfigurationObject,
                                       found |-> FALSE, err |-> NoErr])
         IN IF st.err # NoErr THEN [old EXCEPT !.found = FALSE, !.err = st.err]
            ELSE [found |-> TRUE, err |-> NoErr,
                  FileList |-> fileList, TectonicConfig |-> <<st.tectonicConfig>>]

\* Load's results and the asset's fields after it; old holds the fields before.
TectonicLoadResult(old, fetchOK, fileList) ==
    IF ~fetchOK THEN [old EXCEPT !.found = FALSE, !.err = ErrFetch]
    ELSE IF Len(fileList) = 0 THEN [old EXCEPT !.found = FALSE, !.err = NoErr]
    ELSE LET st == LoadLoop(fileList, [tectonicConfig |-> ZeroConfigurationObject,
                                       found |-> FALSE, err |-> NoErr])
         IN IF st.err # NoErr THEN [old EXCEPT !.found = FALSE, !.err = st.err]
            ELSE IF ~st.found THEN [old EXCEPT !.found = FALSE, !.err = NoErr]
            ELSE [found |-> TRUE, err |-> NoErr,
                  FileList |-> fileList, TectonicConfig |-> <<st.tectonicConfig>>]

TectonicLoad(fetchOK, fileList) ==
    LET r == TectonicLoadResult([found |-> FALSE, err |-> NoErr, FileList |-> tFileList,
                                 TectonicConfig |-> TectonicConfig],
                                fetchOK, fileList)
    IN /\ tCall' = [op |-> "Load", oldLen |-> Len(tFileList),
                    fetched |-> fileList, fetchOK |-> fetchOK]
       /\ tFileList' = r.FileList
       /\ TectonicConfig' = r.TectonicConfig
       /\ tRet' = [found |-> r.found, err |-> r.err]

InitTectonic ==
    /\ tFileList = <<>>
    /\ TectonicConfig = Nil
    /\ tCall = [op |-> "-", oldLen |-> 0, fetched |-> <<>>, fetchOK |-> TRUE]
    /\ tRet = [found |-> FALSE, err |-> NoErr]

NextTectonic ==
    \/ \E pullSecret \in PullSecrets, addonConfig \in AddonConfigs,
          order \in RangeOrders, marshalOK \in BOOLEAN :
          TectonicGenerate(pullSecret, addonConfig, order, marshalOK) /\ UNCHANGED cvars
    \/ \E fetchOK \in BOOLEAN, fileList \in FetchedLists :
          TectonicLoad(fetchOK, fileList) /\ UNCHANGED cvars

Init == InitCluster /\ InitTectonic

Next ==
    \/ \E ic \in InstallConfigs : Generate(ic) /\ UNCHANGED tvars
    \/ \E ok \in BOOLEAN : TempDir(ok) /\ UNCHANGED tvars
    \/ \E ok \in BOOLEAN : WriteFile(ok) /\ UNCHANGED tvars
    \/ SwitchPlatform /\ UNCHANGED tvars
    \/ \E ok, wrote \in BOOLEAN : Apply(ok, wrote) /\ UNCHANGED tvars
    \/ \E ok \in BOOLEAN : ReadFile(ok) /\ UNCHANGED tvars
    \/ \E ok \in BOOLEAN : DeferredMetadata(ok) /\ UNCHANGED tvars
    \/ DeferredRemoveAll /\ UNCHANGED tvars
    \/ Return /\ UNCHANGED tvars
    \/ \E fetch \in FetchOutcomes : Load(fetch) /\ UNCHANGED tvars

Spec == Init /\ [][Next]_vars

SpecTectonic == Init /\ [][NextTectonic]_vars

\* ------------------------------------------------------------- properties
\* the artifacts the running (or last) Generate call appended
NewFiles == SubSeq(FileList, Len(entryFileList) + 1, Len(FileList))

Has(list, name) == \E i \in 1..Len(list) : list[i].Filename = name

\* the variants of a metadata record that are populated, by platform name
PopulatedVariants(m) ==
    {n \in {"aws", "openstack", "libvirt"} :
        \/ n = "aws" /\ m.AWS # Nil
        \/ n = "openstack" /\ m.OpenStack # Nil
        \/ n = "libvirt" /\ m.Libvirt # Nil}

\* the platforms an install configuration sets, by platform name
ConfiguredPlatforms(ic) ==
    {n \in {"aws", "openstack", "libvirt"} :
        \/ n = "aws" /\ ic.Platform.AWS # Nil
        \/ n = "openstack" /\ ic.Platform.OpenStack # Nil
        \/ n = "libvirt" /\ ic.Platform.Libvirt # Nil}

\* C1 as stated: a Generate call that got its temporary directory, on an
\* install configuration with no platform set, returns "no known platform"
\* having written no file and not having invoked terraform.Apply.
C1_NoPlatformNoWrites ==
    (pc = "returned" /\ ~KnownPlatform(installConfig) /\ outcome.tempDir = "ok")
        => (err = ErrNoPlatform /\ writes = <<>> /\ applied = <<>>)

\* C1 amended: with no platform set, Generate never invokes terraform.Apply
\* and returns a non-nil error; once the temporary directory is created and
\* the variables file written into it (the call's one file write, made before
\* the platform is looked at), that error is "no known platform", and the
\* directory with the file is gone at the return.
C1_NoPlatformNoApply ==
    ~KnownPlatform(installConfig) =>
        /\ applied = <<>>
        /\ outcome.apply = "-"
        /\ Len(writes) <= 1
        /\ pc = "returned" =>
            /\ err # NoErr
            /\ outcome.write = "ok" =>
                (err = ErrNoPlatform /\ writes = <<tfvarsFileName>> /\ ~tmpDirExists)
            /\ outcome.write # "ok" => err \in {ErrTempDir, ErrWriteVars}

C1_Witness ==
    /\ pc = "returned"
    /\ ~KnownPlatform(installConfig)
    /\ err = ErrNoPlatform
    /\ writes = <<tfvarsFileName>>
    /\ applied = <<>>

\* C2: when terraform.Apply failed and the state file it left was read, the
\* call has appended the state artifact and returns the error of the apply,
\* whatever the metadata serialization did afterwards.
C2_ApplyFailedStateKept ==
    (pc = "returned" /\ outcome.apply = "fail" /\ outcome.read = "ok") =>
        /\ NewFiles # <<>>
        /\ NewFiles[1] = File(StateFileName,
                              StateData(PlatformName(installConfig.Platform), FALSE))
        /\ Has(Files, StateFileName)
        /\ err = ErrApply

C2_Witness ==
    /\ pc = "returned"
    /\ outcome.apply = "fail"
    /\ outcome.read = "ok"
    /\ Has(NewFiles, StateFileName)
    /\ err = ErrApply

\* C3 as stated: when terraform.Apply succeeded, Files() holds a state
\* artifact and a metadata artifact and the returned error is nil.
C3_ApplyOkBothArtifacts ==
    (pc = "returned" /\ outcome.apply = "ok") =>
        /\ Has(Files, StateFileName)
        /\ Has(Files, metadataFileName)
        /\ err = NoErr

\* C3 amended: when terraform.Apply succeeded, the state file was read and
\* the metadata was serialized, the call has appended the state artifact and
\* then the metadata artifact, and the returned error is nil.
C3_AllOkBothArtifacts ==
    (pc = "returned" /\ outcome.apply = "ok" /\ outcome.read = "ok"
        /\ outcome.marshal = "ok") =>
        /\ NewFiles = <<File(StateFileName,
                             StateData(PlatformName(installConfig.Platform), TRUE)),
                        File(metadataFileName, JsonMarshal(metadata[1]))>>
        /\ Has(Files, StateFileName)
        /\ Has(Files, metadataFileName)
        /\ err = NoErr

C3_Witness ==
    /\ pc = "returned"
    /\ outcome.apply = "ok"
    /\ outcome.read = "ok"
    /\ outcome.marshal = "ok"
    /\ Len(NewFiles) = 2
    /\ err = NoErr

\* C4 as stated: on every exit path of Generate the metadata artifact has
\* been appended, unless the serialization failed.
C4_MetadataOnEveryExit ==
    (pc = "returned" /\ outcome.marshal # "fail") => Has(NewFiles, metadataFileName)

\* C4 amended: on every exit path of Generate after the variables file was
\* written (no known platform, tool failure, state read failure, success) the
\* metadata is serialized and, unless that fails, appended as the call's last
\* artifact; when the temporary directory or the variables file write fails,
\* Generate returns before the serialization is deferred and appends nothing.
C4_MetadataAfterVariablesWritten ==
    pc = "returned" =>
        /\ outcome.write = "ok" => outcome.marshal \in {"ok", "fail"}
        /\ (outcome.write = "ok" /\ outcome.marshal = "ok") =>
            /\ NewFiles # <<>>
            /\ NewFiles[Len(NewFiles)] = File(metadataFileName, JsonMarshal(metadata[1]))
        /\ outcome.marshal = "fail" => ~Has(NewFiles, metadataFileName)
        /\ outcome.write # "ok" => (outcome.marshal = "-" /\ NewFiles = <<>>)

C4_Witness ==
    /\ pc = "returned"
    /\ err = ErrNoPlatform
    /\ outcome.marshal = "ok"
    /\ NewFiles = <<File(metadataFileName, JsonMarshal(metadata[1]))>>

\* C5: Load answers (false, nil) when the fetcher says the state file does
\* not exist, answers with a non-nil error when the state file exists, and
\* never answers found with a nil error.
C5_LoadNeverCacheHit ==
    /\ loadFetch = "notexist" => loadRet = [found |-> FALSE, err |-> NoErr]
    /\ loadFetch = "found" => loadRet.err # NoErr
    /\ loadFetch = "ioerror" => loadRet = [found |-> FALSE, err |-> ErrFetch]
    /\ ~(loadRet.found /\ loadRet.err = NoErr)

C5_Witness ==
    /\ loadFetch = "found"
    /\ loadRet = [found |-> TRUE, err |-> ErrAlreadyExists]

\* C6: once the platform switch has run on an install configuration that
\* sets a platform, exactly one variant of the metadata record is populated:
\* the one of the platform the configuration sets, which is the platform
\* whose name terraform.Apply is invoked with; the serialized metadata
\* artifact carries that record.
C6_OneVariantMatchingPlatform ==
    (metadata # Nil /\ pc # "switch" /\ KnownPlatform(installConfig)) =>
        /\ Cardinality(PopulatedVariants(metadata[1])) = 1
        /\ PopulatedVariants(metadata[1]) = ConfiguredPlatforms(installConfig)
        /\ PopulatedVariants(metadata[1]) = {PlatformName(installConfig.Platform)}
        /\ \A i \in 1..Len(applied) : PopulatedVariants(metadata[1]) = {applied[i]}
        /\ metadata[1].ClusterName = installConfig.Name
        /\ \A i \in 1..Len(NewFiles) :
              NewFiles[i].Filename = metadataFileName =>
                  NewFiles[i].Data = JsonMarshal(PlatformMetadata(
                      [ClusterName |-> installConfig.Name,
                       AWS |-> Nil, OpenStack |-> Nil, Libvirt |-> Nil], installConfig))

C6_Witness ==
    /\ pc = "returned"
    /\ metadata # Nil
    /\ installConfig.Platform.Libvirt # Nil
    /\ PopulatedVariants(metadata[1]) = {"libvirt"}
    /\ applied = <<"libvirt">>
    /\ Has(NewFiles, metadataFileName)

\* C7: no return of Generate leaves the temporary directory in existence.
C7_TempDirRemoved ==
    pc = "returned" => (~tmpDirExists /\ tmpDirFiles = {})

C7_Witness ==
    /\ pc = "returned"
    /\ outcome.tempDir = "ok"
    /\ outcome.apply = "fail"
    /\ ~tmpDirExists

\* C10: of the best-effort steps (apply, state read, metadata serialization)
\* the first to fail gives the returned error and the later failures are
\* logged: the apply error whenever the apply failed, the read error when the
\* apply succeeded and the read failed, the serialization error only when no
\* earlier step set an error.
C10_FirstErrorWins ==
    pc = "returned" =>
        /\ outcome.apply = "fail" =>
            /\ err = ErrApply
            /\ outcome.read = "fail" =>
                (logged # <<>> /\ logged[1] = ErrReadState)
        /\ (outcome.apply = "ok" /\ outcome.read = "fail") =>
            (err = ErrReadState /\ ErrReadState \notin {logged[i] : i \in 1..Len(logged)})
        /\ outcome.marshal = "fail" =>
            IF outcome.apply = "ok" /\ outcome.read = "ok"
            THEN err = ErrMarshal /\ logged = <<>>
            ELSE err # ErrMarshal /\ logged[Len(logged)] = ErrMarshal
        /\ err = ErrMarshal => outcome.marshal = "fail"
        /\ (outcome.apply = "ok" /\ outcome.read = "ok" /\ outcome.marshal = "ok")
            => err = NoErr

C10_Witness ==
    /\ pc = "returned"
    /\ outcome.apply = "fail"
    /\ outcome.read = "fail"
    /\ outcome.marshal = "fail"
    /\ err = ErrApply
    /\ logged = <<ErrReadState, ErrMarshal>>

\* the places of the configuration document in a fetched file list
ConfigPlaces(fileList) ==
    {i \in 1..Len(fileList) : fileList[i].Filename = tectonicConfigPath}

\* C8: for a fetched set of files, Load answers (false, nil) when the set is
\* empty or holds no configuration document; when it holds one that
\* deserializes, Load answers (true, nil), the asset's file list is the
\* fetched set and its configuration object is the deserialized document.
C8_TectonicLoad ==
    (tCall.op = "Load" /\ tCall.fetchOK) =>
        /\ ConfigPlaces(tCall.fetched) = {} =>
            tRet = [found |-> FALSE, err |-> NoErr]
        /\ \A i \in ConfigPlaces(tCall.fetched) :
            LET u == YamlUnmarshal(tCall.fetched[i].Data, ZeroConfigurationObject)
            IN IF u.err = NoErr
               THEN /\ tRet = [found |-> TRUE, err |-> NoErr]
                    /\ TectonicFiles = tCall.fetched
                    /\ TectonicConfig = <<u.obj>>
               ELSE tRet = [found |-> FALSE, err |-> ErrYamlUnmarshal]

C8_Witness ==
    /\ tCall.op = "Load"
    /\ tCall.fetchOK
    /\ Len(tCall.fetched) = 2
    /\ tCall.fetched[2].Filename = tectonicConfigPath
    /\ tRet = [found |-> TRUE, err |-> NoErr]
    /\ TectonicFiles = tCall.fetched
    /\ TectonicConfig = <<configMap("tectonic-system", "cluster-config-v1",
                                    <<"addon-config", "addon-config-1">>)>>

\* C8, the other case: files matched, none of them the configuration document.
C8_WitnessNotFound ==
    /\ tCall.op = "Load"
    /\ tCall.fetchOK
    /\ tCall.fetched # <<>>
    /\ ConfigPlaces(tCall.fetched) = {}
    /\ tRet = [found |-> FALSE, err |-> NoErr]

\* C9: after a successful Generate the file list is the serialized
\* configuration document followed by exactly one file for each entry of the
\* filename table, every path in the "tectonic" directory, whatever the file
\* list held before.
C9_TectonicGenerate ==
    (tCall.op = "Generate" /\ tRet.err = NoErr) =>
        /\ Len(TectonicFiles) = 1 + Len(assetNames)
        /\ TectonicFiles[1] = File(tectonicConfigPath, YamlMarshal(TectonicConfig[1]))
        /\ \A n \in 1..Len(assetNames) :
              Cardinality({i \in 2..Len(TectonicFiles) :
                  TectonicFiles[i].Filename = Join(tectonicManifestDir, assetNames[n])}) = 1
        /\ \A i \in 1..Len(TectonicFiles) :
              \/ TectonicFiles[i].Filename = tectonicConfigPath
              \/ \E n \in 1..Len(assetNames) :
                    TectonicFiles[i].Filename = Join(tectonicManifestDir, assetNames[n])

C9_Witness ==
    /\ tCall.op = "Generate"
    /\ tRet.err = NoErr
    /\ tCall.oldLen > 0
    /\ Len(TectonicFiles) = 1 + Len(assetNames)
    /\ TectonicFiles[1].Filename = tectonicConfigPath
    /\ TectonicFiles[2].Filename # Join(tectonicManifestDir, assetNames[1])

=============================================================================
